---- MODULE Spec2Model ----
(***************************************************************************)
(* Model of mileagecalc.py: the mileage and reimbursement calculator.      *)
(*                                                                         *)
(* A Python str is a sequence of one-character strings, so that strip(),   *)
(* lower(), "+" and join() are computed character by character.  None is   *)
(* the empty tuple <<>> and a present value v is <<v>>.  A float is the    *)
(* exact rational [num, den] of the operations that produced it.           *)
(***************************************************************************)
EXTENDS Integers, Sequences, FiniteSets, TLC

(***************************************************************************)
(* Bounds of the model.                                                    *)
(***************************************************************************)
MaxReads == 5        \* lines typed by the user in one run
MaxWaypoints == 2    \* waypoints of a route request
MaxOrderLen == 3     \* entries of waypoint_order
MaxLegs == 2         \* legs of the first route
MaxDist == 2         \* largest distance.value drawn for a leg, in meters

(***************************************************************************)
(* Program constants.                                                      *)
(***************************************************************************)
\* IRS_BUSINESS_RATE = 0.70 as the fraction RateNum / RateDen
RateNum == 70
RateDen == 100
\* 1609.344 as the fraction MileNum / MileDen
MileNum == 1609344
MileDen == 1000
HttpOk == 200

(***************************************************************************)
(* Strings.                                                                *)
(***************************************************************************)
Whitespace == {" ", "\t", "\n", "\r"}

UpperLetters == <<"A","B","C","D","E","F","G","H","I","J","K","L","M",
                  "N","O","P","Q","R","S","T","U","V","W","X","Y","Z">>
LowerLetters == <<"a","b","c","d","e","f","g","h","i","j","k","l","m",
                  "n","o","p","q","r","s","t","u","v","w","x","y","z">>

LowerChar(c) ==
    IF \E i \in 1..Len(UpperLetters) : UpperLetters[i] = c
    THEN LowerLetters[CHOOSE i \in 1..Len(UpperLetters) : UpperLetters[i] = c]
    ELSE c

\* a lower() that was forgotten: the text is compared as typed
ToLowerAsTyped(s) == s

\* str.lower()
ToLower(s) == [i \in 1..Len(s) |-> LowerChar(s[i])]

RECURSIVE LStrip(_)
LStrip(s) ==
    IF s = <<>> THEN s
    ELSE IF Head(s) \in Whitespace THEN LStrip(Tail(s)) ELSE s

RECURSIVE RStrip(_)
RStrip(s) ==
    IF s = <<>> THEN s
    ELSE IF s[Len(s)] \in Whitespace THEN RStrip(SubSeq(s, 1, Len(s) - 1)) ELSE s

\* str.strip()
Strip(s) == RStrip(LStrip(s))

\* sep.join(strs)
RECURSIVE Join(_, _)
Join(sep, strs) ==
    IF strs = <<>> THEN <<>>
    ELSE IF Len(strs) = 1 THEN strs[1]
    ELSE strs[1] \o sep \o Join(sep, Tail(strs))

CancelWords == { <<"q">>, <<"q","u","i","t">>, <<"e","x","i","t">> }
DoneWords == { <<>>, <<"d","o","n","e">> }

ModeDriving == <<"d","r","i","v","i","n","g">>
OptimizePrefix == <<"o","p","t","i","m","i","z","e",":","t","r","u","e","|">>

(***************************************************************************)
(* The inputs of a run: the lines the user may type, the environment and   *)
(* the responses of the routing service.                                   *)
(***************************************************************************)
Lines == { <<>>, <<" ">>,
           <<" ","Q"," ">>, <<"E","x","i","t">>,
           <<"D","o","n","e"," ">>,
           <<"A">>, <<" ","b"," ","c","\t">> }

Environments == { [set |-> FALSE, value |-> <<>>],
                  [set |-> TRUE, value |-> <<>>],
                  [set |-> TRUE, value |-> <<"K">>] }

SeqsUpTo(S, n) == UNION { [1..k -> S] : k \in 0..n }

\* leg.get("distance", {}).get("value"): <<>> is None, <<v>> is the value v
LegValues == { <<>> } \cup { <<v>> : v \in 0..MaxDist }

Route(l, h, p) == [legs |-> l, has_order |-> h, waypoint_order |-> p]

HttpResponse(code, st, rs) == [status_code |-> code, status |-> st, routes |-> rs]

\* routes after the first one
OtherRoutes == { Route(<< <<16093>> >>, FALSE, <<>>),
                 Route(<< <<>> >>, TRUE, <<0>>) }

\* responses that differ in the legs of the first route
DistanceResponses ==
    { HttpResponse(HttpOk, "OK", <<Route(l, FALSE, <<>>)>>) :
        l \in SeqsUpTo(LegValues, MaxLegs) }
    \cup
    { HttpResponse(HttpOk, "OK", <<Route(l, FALSE, <<>>), o>>) :
        l \in SeqsUpTo(LegValues, MaxLegs), o \in OtherRoutes }

\* responses that differ in waypoint_order: any indices, in range or not
OrderResponses ==
    { HttpResponse(HttpOk, "OK", <<Route(<< <<1>> >>, TRUE, p)>>) :
        p \in SeqsUpTo(-1..MaxWaypoints, MaxOrderLen) }
    \cup
    { HttpResponse(HttpOk, "OK", <<Route(<< <<1>> >>, FALSE, <<>>)>>) }

RouteResponses == DistanceResponses \cup OrderResponses

\* the responses of the whole-run specification: one of each kind
PipelineResponses ==
    { HttpResponse(500, "OK", <<Route(<< <<1>> >>, FALSE, <<>>)>>),
      HttpResponse(HttpOk, "ZERO_RESULTS", <<>>),
      HttpResponse(HttpOk, "REQUEST_DENIED", <<Route(<< <<1>> >>, FALSE, <<>>)>>),
      HttpResponse(HttpOk, "OK", <<>>),
      HttpResponse(HttpOk, "OK", <<Route(<<>>, TRUE, <<0>>)>>),
      HttpResponse(HttpOk, "OK", <<Route(<< <<1>>, <<>> >>, FALSE, <<>>)>>),
      HttpResponse(HttpOk, "OK", <<Route(<< <<0>>, <<16093>> >>, FALSE, <<>>)>>),
      HttpResponse(HttpOk, "OK", <<Route(<< <<2>>, <<1>> >>, TRUE, <<1, 0>>),
                                   Route(<< <<16093>> >>, FALSE, <<>>)>>) }

(***************************************************************************)
(* Pure functions of the program.                                          *)
(***************************************************************************)
\* "if waypoints is not None": the directive is sent for an empty list too
build_directions_params_always(o, d, w, key) ==
    LET base == [k \in {"origin", "destination", "mode", "key"} |->
                    CASE k = "origin" -> o
                      [] k = "destination" -> d
                      [] k = "mode" -> ModeDriving
                      [] k = "key" -> key]
    IN ("waypoints" :> (OptimizePrefix \o Join(<<"|">>, w))) @@ base

build_directions_params(o, d, w, key) ==
    LET base == [k \in {"origin", "destination", "mode", "key"} |->
                    CASE k = "origin" -> o
                      [] k = "destination" -> d
                      [] k = "mode" -> ModeDriving
                      [] k = "key" -> key]
    IN IF w # <<>>
       THEN ("waypoints" :> (OptimizePrefix \o Join(<<"|">>, w))) @@ base
       ELSE base

\* "if not dist_value": a distance of 0 is taken for a missing one
RECURSIVE SumLegsFalsy(_, _)
SumLegsFalsy(legs, total) ==
    IF legs = <<>> THEN [ok |-> TRUE, value |-> total]
    ELSE IF Head(legs) = <<>> \/ Head(legs) = <<0>> THEN [ok |-> FALSE, value |-> total]
    ELSE SumLegsFalsy(Tail(legs), total + Head(legs)[1])

\* the loop over legs: [ok |-> FALSE] is sys.exit(1)
RECURSIVE SumLegs(_, _)
SumLegs(legs, total) ==
    IF legs = <<>> THEN [ok |-> TRUE, value |-> total]
    ELSE IF Head(legs) = <<>> THEN [ok |-> FALSE, value |-> total]
    ELSE SumLegs(Tail(legs), total + Head(legs)[1])

extract_total_distance_meters(json) ==
    IF json.routes = <<>> THEN [ok |-> FALSE, value |-> 0]
    ELSE IF json.routes[1].legs = <<>> THEN [ok |-> FALSE, value |-> 0]
    ELSE SumLegs(json.routes[1].legs, 0)

\* meters * 1609.344: the conversion applied the wrong way round
meters_to_miles_inverted(meters) == [num |-> meters * MileNum, den |-> MileDen]

\* meters / 1609.344
meters_to_miles(meters) == [num |-> meters * MileDen, den |-> MileNum]

\* total_miles * IRS_BUSINESS_RATE
Reimbursement(miles) == [num |-> miles.num * RateNum, den |-> miles.den * RateDen]

\* "if idx < len(waypoints)": a negative index counts from the end of the list
RECURSIVE AppendInRangeNegative(_, _, _)
AppendInRangeNegative(ordered, indices, w) ==
    IF indices = <<>> THEN ordered
    ELSE LET idx == Head(indices)
         IN IF idx < Len(w)
            THEN AppendInRangeNegative(
                     Append(ordered, IF idx >= 0 THEN w[idx + 1] ELSE w[Len(w) + idx + 1]),
                     Tail(indices), w)
            ELSE AppendInRangeNegative(ordered, Tail(indices), w)

\* the loop over ordered_indices; Python indices are 0-based
RECURSIVE AppendInRange(_, _, _)
AppendInRange(ordered, indices, w) ==
    IF indices = <<>> THEN ordered
    ELSE LET idx == Head(indices)
         IN IF 0 <= idx /\ idx < Len(w)
            THEN AppendInRange(Append(ordered, w[idx + 1]), Tail(indices), w)
            ELSE AppendInRange(ordered, Tail(indices), w)

\* an index that was already used is skipped
RECURSIVE AppendUnique(_, _, _, _)
AppendUnique(ordered, indices, w, used) ==
    IF indices = <<>> THEN ordered
    ELSE LET idx == Head(indices)
         IN IF 0 <= idx /\ idx < Len(w) /\ idx \notin used
            THEN AppendUnique(Append(ordered, w[idx + 1]), Tail(indices), w, used \cup {idx})
            ELSE AppendUnique(ordered, Tail(indices), w, used)

get_optimized_order_unique(json, o, d, w) ==
    LET route == json.routes[1]
        ordered == IF route.has_order /\ w # <<>>
                   THEN AppendUnique(<<o>>, route.waypoint_order, w, {})
                   ELSE <<o>>
    IN Append(ordered, d)

get_optimized_order(json, o, d, w) ==
    LET route == json.routes[1]
        ordered == IF route.has_order /\ w # <<>>
                   THEN AppendInRange(<<o>>, route.waypoint_order, w)
                   ELSE <<o>>
    IN Append(ordered, d)

\* destination = stops[0] whatever the number of stops
SplitStopsFirst(ss) == [destination |-> ss[1], waypoints |-> Tail(ss)]

\* the destination and the waypoints of a non-empty list of stops
SplitStops(ss) ==
    IF Len(ss) = 1
    THEN [destination |-> ss[1], waypoints |-> <<>>]
    ELSE [destination |-> ss[Len(ss)], waypoints |-> SubSeq(ss, 1, Len(ss) - 1)]

\* "continue" that reaches the origin loop
StopsRetryFromOrigin == [pc |-> "origin", prompt |-> 0]

\* "continue": the stop loop is entered again, stops = [] and the prompt is Stop #1
StopsRetry == [pc |-> "stops", prompt |-> 1]

(***************************************************************************)
(* State.                                                                  *)
(***************************************************************************)
VARIABLES
    pc,              \* where main() is
    env,             \* GOOGLE_MAPS_API_KEY in the environment
    api_key,
    origin,
    stops,
    destination,
    waypoints,
    prompt,          \* 0: the origin prompt, n > 0: the prompt "Stop #n"
    inputLog,        \* every line input() has returned, in order
    cancelled,       \* input() raised EOFError or KeyboardInterrupt
    params,          \* query parameters of the HTTP request
    httpRequests,    \* number of calls of requests.get
    response,        \* what requests.get returned
    directions_json,
    total_meters,
    total_miles,
    reimbursement,
    ordered_stops,
    reportPrinted,
    exit_status      \* <<>> while running, <<n>> after sys.exit(n)

vars == << pc, env, api_key, origin, stops, destination, waypoints, prompt,
           inputLog, cancelled, params, httpRequests, response,
           directions_json, total_meters, total_miles, reimbursement,
           ordered_stops, reportPrinted, exit_status >>

inputVars == << origin, stops, destination, waypoints, prompt, inputLog, cancelled >>
httpVars == << params, httpRequests, response, directions_json >>
resultVars == << total_meters, total_miles, reimbursement, ordered_stops, reportPrinted >>

NoParams == [k \in {} |-> <<>>]
NoResponse == [status_code |-> 0, status |-> "", routes |-> <<>>]

Init ==
    /\ pc = "start"
    /\ env \in Environments
    /\ api_key = <<>>
    /\ origin = <<>>
    /\ stops = <<>>
    /\ destination = <<>>
    /\ waypoints = <<>>
    /\ prompt = 0
    /\ inputLog = <<>>
    /\ cancelled = FALSE
    /\ params = NoParams
    /\ httpRequests = 0
    /\ response = NoResponse
    /\ directions_json = [routes |-> <<>>]
    /\ total_meters = 0
    /\ total_miles = [num |-> 0, den |-> 1]
    /\ reimbursement = [num |-> 0, den |-> 1]
    /\ ordered_stops = <<>>
    /\ reportPrinted = FALSE
    /\ exit_status = <<>>

\* sys.exit(code)
SysExit(code) ==
    /\ pc' = "exited"
    /\ exit_status' = <<code>>

(***************************************************************************)
(* Steps of main().                                                        *)
(***************************************************************************)
\* get_api_key() without the check of the value
GetApiKeyUnchecked ==
    /\ pc = "start"
    /\ api_key' = env.value
    /\ pc' = "origin"
    /\ UNCHANGED << env, exit_status, inputVars, httpVars, resultVars >>

\* api_key = get_api_key()
GetApiKey ==
    /\ pc = "start"
    /\ IF ~env.set \/ env.value = <<>>
       THEN /\ SysExit(1)
            /\ UNCHANGED api_key
       ELSE /\ api_key' = env.value
            /\ pc' = "origin"
            /\ UNCHANGED exit_status
    /\ UNCHANGED << env, inputVars, httpVars, resultVars >>

\* one pass of the origin loop of prompt_for_addresses
ReadOrigin(line) ==
    /\ pc = "origin"
    /\ Len(inputLog) < MaxReads
    /\ inputLog' = Append(inputLog, line)
    /\ origin' = Strip(line)
    /\ IF ToLower(origin') \in CancelWords
       THEN /\ SysExit(0)
            /\ UNCHANGED << stops, prompt >>
       ELSE IF origin' # <<>>
       THEN /\ pc' = "stops"
            /\ stops' = <<>>
            /\ prompt' = 1
            /\ UNCHANGED exit_status
       ELSE /\ pc' = "origin"
            /\ prompt' = 0
            /\ UNCHANGED << stops, exit_status >>
    /\ UNCHANGED << env, api_key, destination, waypoints, cancelled,
                    httpVars, resultVars >>

\* one pass of the inner stop loop, with what follows it when the loop ends
ReadStop(line) ==
    /\ pc = "stops"
    /\ Len(inputLog) < MaxReads
    /\ inputLog' = Append(inputLog, line)
    /\ LET stop == Strip(line)
           lower == ToLower(stop)
       IN IF lower \in CancelWords
          THEN /\ SysExit(0)
               /\ UNCHANGED << stops, destination, waypoints, prompt >>
          ELSE IF lower \in DoneWords
          THEN IF Len(stops) = 0
               THEN /\ pc' = StopsRetry.pc
                    /\ stops' = <<>>
                    /\ prompt' = StopsRetry.prompt
                    /\ UNCHANGED << destination, waypoints, exit_status >>
               ELSE /\ destination' = SplitStops(stops).destination
                    /\ waypoints' = SplitStops(stops).waypoints
                    /\ pc' = "request"
                    /\ UNCHANGED << stops, prompt, exit_status >>
          ELSE /\ stops' = Append(stops, stop)
               /\ prompt' = Len(stops') + 1
               /\ pc' = "stops"
               /\ UNCHANGED << destination, waypoints, exit_status >>
    /\ UNCHANGED << env, api_key, origin, cancelled, httpVars, resultVars >>

\* safe_input leaving with sys.exit(0)
InputCancelledAsQuit ==
    /\ pc \in {"origin", "stops"}
    /\ cancelled' = TRUE
    /\ SysExit(0)
    /\ UNCHANGED << env, api_key, origin, stops, destination, waypoints,
                    prompt, inputLog, httpVars, resultVars >>

\* safe_input: input() raises KeyboardInterrupt or EOFError
InputCancelled ==
    /\ pc \in {"origin", "stops"}
    /\ cancelled' = TRUE
    /\ SysExit(1)
    /\ UNCHANGED << env, api_key, origin, stops, destination, waypoints,
                    prompt, inputLog, httpVars, resultVars >>

\* directions_json = get_directions(origin, destination, waypoints, api_key)
GetDirections(resp) ==
    /\ pc = "request"
    /\ params' = build_directions_params(origin, destination, waypoints, api_key)
    /\ httpRequests' = httpRequests + 1
    /\ response' = resp
    /\ IF resp.status_code # HttpOk
       THEN /\ SysExit(1)
            /\ UNCHANGED directions_json
       ELSE IF resp.status # "OK"
       THEN /\ SysExit(1)
            /\ UNCHANGED directions_json
       ELSE /\ directions_json' = [routes |-> resp.routes]
            /\ pc' = "extract"
            /\ UNCHANGED exit_status
    /\ UNCHANGED << env, api_key, inputVars, resultVars >>

\* total_meters = extract_total_distance_meters(directions_json)
ExtractTotalDistance ==
    /\ pc = "extract"
    /\ LET r == extract_total_distance_meters(directions_json)
       IN IF r.ok
          THEN /\ total_meters' = r.value
               /\ pc' = "report"
               /\ UNCHANGED exit_status
          ELSE /\ SysExit(1)
               /\ UNCHANGED total_meters
    /\ UNCHANGED << env, api_key, inputVars, httpVars, total_miles,
                    reimbursement, ordered_stops, reportPrinted >>

\* the rest of main(): the arithmetic, the optimized order and the report
Report ==
    /\ pc = "report"
    /\ total_miles' = meters_to_miles(total_meters)
    /\ reimbursement' = Reimbursement(total_miles')
    /\ ordered_stops' = get_optimized_order(directions_json, origin, destination, waypoints)
    /\ reportPrinted' = TRUE
    /\ pc' = "done"
    /\ UNCHANGED << env, api_key, inputVars, httpVars, total_meters, exit_status >>

Next ==
    \/ GetApiKey
    \/ \E line \in Lines : ReadOrigin(line)
    \/ \E line \in Lines : ReadStop(line)
    \/ InputCancelled
    \/ \E resp \in PipelineResponses : GetDirections(resp)
    \/ ExtractTotalDistance
    \/ Report

Spec == Init /\ [][Next]_vars

(***************************************************************************)
(* The run from the point where prompt_for_addresses has returned, with    *)
(* every response of the bounded families.  The user typed the origin, the *)
(* stops and a blank line, each without surrounding whitespace.            *)
(***************************************************************************)
Addresses == { <<"A">>, <<"b"," ","c">> }

InitRoute ==
    /\ pc = "request"
    /\ env = [set |-> TRUE, value |-> <<"K">>]
    /\ api_key = <<"K">>
    /\ origin = <<"O">>
    /\ waypoints \in SeqsUpTo(Addresses, MaxWaypoints)
    /\ destination \in Addresses
    /\ stops = Append(waypoints, destination)
    /\ prompt = Len(stops) + 1
    /\ inputLog = <<origin>> \o stops \o << <<>> >>
    /\ cancelled = FALSE
    /\ params = NoParams
    /\ httpRequests = 0
    /\ response = NoResponse
    /\ directions_json = [routes |-> <<>>]
    /\ total_meters = 0
    /\ total_miles = [num |-> 0, den |-> 1]
    /\ reimbursement = [num |-> 0, den |-> 1]
    /\ ordered_stops = <<>>
    /\ reportPrinted = FALSE
    /\ exit_status = <<>>

NextRoute ==
    \/ \E resp \in RouteResponses : GetDirections(resp)
    \/ ExtractTotalDistance
    \/ Report

SpecRoute == InitRoute /\ [][NextRoute]_vars

(***************************************************************************)
(* Vocabulary of the properties.                                           *)
(***************************************************************************)
Last(s) == s[Len(s)]
Front(s) == SubSeq(s, 1, Len(s) - 1)
Count(a, s) == Cardinality({ i \in DOMAIN s : s[i] = a })
SameElements(s, t) ==
    \A a \in { s[i] : i \in DOMAIN s } \cup { t[i] : i \in DOMAIN t } :
        Count(a, s) = Count(a, t)

FirstRoute == directions_json.routes[1]

\* the index list the service returned: none when waypoint_order is absent
ReturnedOrder == IF FirstRoute.has_order THEN FirstRoute.waypoint_order ELSE <<>>

IsInRange(i) == 0 <= i /\ i < Len(waypoints)
InRangeOrder == SelectSeq(ReturnedOrder, IsInRange)

IsPermutation(p, n) ==
    /\ Len(p) = n
    /\ { p[i] : i \in DOMAIN p } = 0..(n - 1)

Middle(s) == SubSeq(s, 2, Len(s) - 1)

\* prompt_for_addresses has returned
AddressesReturned == pc = "request" \/ httpRequests > 0

KeyMissing == ~env.set \/ env.value = <<>>

\* two texts that differ at most in the case of their letters
SameLetter(c, d) ==
    \/ c = d
    \/ \E i \in DOMAIN UpperLetters :
          {c, d} = {UpperLetters[i], LowerLetters[i]}

SameIgnoringCase(s, t) ==
    /\ Len(s) = Len(t)
    /\ \A i \in DOMAIN s : SameLetter(s[i], t[i])

IsWordOf(s, words) == \E w \in words : SameIgnoringCase(s, w)

IsFinishLine(l) == IsWordOf(Strip(l), DoneWords)
IsCancelLine(l) == IsWordOf(Strip(l), CancelWords)

RECURSIVE SumOfValues(_)
SumOfValues(legs) ==
    IF legs = <<>> THEN 0 ELSE SumOfValues(Front(legs)) + Last(legs)[1]

AllLegsValued(legs) == \A i \in DOMAIN legs : legs[i] # <<>>

RECURSIVE GCD(_, _)
GCD(a, b) == IF b = 0 THEN a ELSE GCD(b, a % b)

\* a fraction in lowest terms
Lowest(r) ==
    LET g == GCD(r.num, r.den)
    IN [num |-> r.num \div g, den |-> r.den \div g]

FracLeq(a, b) == Lowest(a).num * Lowest(b).den <= Lowest(b).num * Lowest(a).den

(***************************************************************************)
(* C1: the optimized order is the origin, then waypoints[i] for every i of *)
(* the returned index list that satisfies 0 <= i < len(waypoints), in the  *)
(* order of that list, then the destination; an index out of range is      *)
(* skipped; with no waypoints or no waypoint_order it is                   *)
(* [origin, destination].                                                  *)
(***************************************************************************)
C1_OptimizedOrder ==
    pc = "done" =>
        /\ ordered_stops =
              <<origin>>
              \o [k \in 1..Len(InRangeOrder) |-> waypoints[InRangeOrder[k] + 1]]
              \o <<destination>>
        /\ (waypoints = <<>> \/ ~FirstRoute.has_order)
              => ordered_stops = <<origin, destination>>

C1_Witness ==
    /\ pc = "done"
    /\ Len(waypoints) = 2
    /\ waypoints[1] # waypoints[2]
    /\ \E i, j, k \in DOMAIN ReturnedOrder :
          /\ ReturnedOrder[i] < 0
          /\ ReturnedOrder[j] >= Len(waypoints)
          /\ IsInRange(ReturnedOrder[k])
    /\ Len(ordered_stops) = 3

(***************************************************************************)
(* C2: when prompt_for_addresses has returned, the origin is the first     *)
(* non-blank line typed, and it is not empty; the stops are the lines      *)
(* typed after the last earlier finishing line (blank or 'done'), each     *)
(* trimmed, and there is at least one; the destination is the last of      *)
(* them and the waypoints are the others in the order typed; no stop is    *)
(* empty, 'done' or a cancel keyword.                                      *)
(***************************************************************************)
C2_ReturnedAddresses ==
    AddressesReturned =>
        LET n == Len(inputLog)
            oi == CHOOSE i \in 1..n :
                     /\ Strip(inputLog[i]) # <<>>
                     /\ \A j \in 1..(i - 1) : Strip(inputLog[j]) = <<>>
            finishes == { j \in (oi + 1)..(n - 1) : IsFinishLine(inputLog[j]) }
            start == CHOOSE j \in finishes \cup {oi} :
                        \A m \in finishes \cup {oi} : m <= j
            entered == [k \in 1..(n - 1 - start) |-> Strip(inputLog[start + k])]
        IN /\ \E i \in 1..n : Strip(inputLog[i]) # <<>>
           /\ origin = Strip(inputLog[oi])
           /\ origin # <<>>
           /\ IsFinishLine(inputLog[n])
           /\ Len(entered) >= 1
           /\ destination = Last(entered)
           /\ waypoints = Front(entered)
           /\ \A s \in {destination} \cup { waypoints[i] : i \in DOMAIN waypoints } :
                 /\ s # <<>>
                 /\ ~IsWordOf(s, DoneWords \cup CancelWords)

C2_Witness ==
    /\ pc = "request"
    /\ Len(waypoints) = 1
    /\ Len(inputLog) = 5
    /\ IsFinishLine(inputLog[2])
    /\ inputLog[4] # Strip(inputLog[4])

(***************************************************************************)
(* C3: a missing API key, a cancelled input, an HTTP status other than     *)
(* 200, an API status other than OK, an empty routes list, an empty legs   *)
(* list and a leg without a distance value each end the run with exit      *)
(* status 1: nothing is retried, no other HTTP request is made and no      *)
(* report is printed.                                                      *)
(***************************************************************************)
ExitedWithError ==
    /\ pc = "exited"
    /\ exit_status = <<1>>
    /\ ~reportPrinted

C3_ErrorsExit ==
    /\ httpRequests <= 1
    /\ (KeyMissing /\ pc # "start") => (ExitedWithError /\ httpRequests = 0)
    /\ cancelled => (ExitedWithError /\ httpRequests = 0)
    /\ (httpRequests = 1 /\ response.status_code # 200) => ExitedWithError
    /\ (httpRequests = 1 /\ response.status # "OK") => ExitedWithError
    /\ ( /\ httpRequests = 1
         /\ response.status_code = 200
         /\ response.status = "OK"
         /\ \/ response.routes = <<>>
            \/ response.routes[1].legs = <<>>
            \/ ~AllLegsValued(response.routes[1].legs) )
       => (ExitedWithError \/ (pc = "extract" /\ exit_status = <<>> /\ ~reportPrinted))

C3_Witness ==
    /\ pc = "exited"
    /\ exit_status = <<1>>
    /\ httpRequests = 1
    /\ response.status_code = 200
    /\ response.status = "OK"
    /\ response.routes # <<>>
    /\ response.routes[1].legs # <<>>
    /\ ~AllLegsValued(response.routes[1].legs)

(***************************************************************************)
(* C4: a line that is 'q', 'quit' or 'exit' once trimmed and lowercased,   *)
(* typed at the origin prompt or at a stop prompt, ends the run with exit  *)
(* status 0 whatever number of stops was entered before, and no HTTP       *)
(* request is made in that run.                                            *)
(***************************************************************************)
C4_CancelKeyword ==
    (inputLog # <<>> /\ IsCancelLine(Last(inputLog))) =>
        /\ pc = "exited"
        /\ exit_status = <<0>>
        /\ httpRequests = 0
        /\ ~reportPrinted

C4_Witness ==
    /\ pc = "exited"
    /\ exit_status = <<0>>
    /\ Len(stops) = 2
    /\ Last(inputLog) = <<" ", "Q", " ">>

(***************************************************************************)
(* C5: the total that extract_total_distance_meters returns is the sum of  *)
(* distance.value over the legs of the first route alone, and a first      *)
(* route whose legs all carry a value, 0 included, is accepted.            *)
(***************************************************************************)
C5_TotalDistance ==
    /\ pc \in {"report", "done"} =>
          /\ AllLegsValued(FirstRoute.legs)
          /\ total_meters = SumOfValues(FirstRoute.legs)
    /\ ( /\ pc \notin {"request", "extract"}
         /\ response.status_code = 200
         /\ response.status = "OK"
         /\ response.routes # <<>>
         /\ response.routes[1].legs # <<>>
         /\ AllLegsValued(response.routes[1].legs) )
       => pc \in {"report", "done"}

C5_Witness ==
    /\ pc = "report"
    /\ Len(directions_json.routes) = 2
    /\ directions_json.routes[2].legs = << <<16093>> >>
    /\ Len(FirstRoute.legs) = MaxLegs
    /\ \E i \in DOMAIN FirstRoute.legs : FirstRoute.legs[i] = <<0>>
    /\ total_meters = MaxDist

(***************************************************************************)
(* C6: the reimbursement is the total of meters divided by 1609.344 and    *)
(* multiplied by 0.70, that is total * 175 / 402336 dollars; it is 0 for   *)
(* 0 meters and no smaller total gives a larger reimbursement.             *)
(***************************************************************************)
C6_Reimbursement ==
    pc = "done" =>
        /\ Lowest(reimbursement) = Lowest([num |-> total_meters * 175, den |-> 402336])
        /\ Lowest(total_miles) = Lowest([num |-> total_meters * 125, den |-> 201168])
        /\ total_meters = 0 => reimbursement.num = 0
        /\ \A m \in 0..total_meters :
              FracLeq(Reimbursement(meters_to_miles(m)), reimbursement)

C6_Witness ==
    /\ pc = "done"
    /\ total_meters = MaxDist * MaxLegs
    /\ reimbursement.num > 0

(***************************************************************************)
(* C7: the key is looked up before any line is read, and a missing key     *)
(* ends the run before the first prompt; at most one HTTP request is made, *)
(* and only after prompt_for_addresses has returned; the report is printed *)
(* only for a response with HTTP status 200, status OK, a first route, at  *)
(* least one leg and a distance value in every leg.                        *)
(***************************************************************************)
C7_LinearPipeline ==
    /\ (inputLog # <<>> \/ cancelled \/ pc \in {"origin", "stops"})
          => (~KeyMissing /\ api_key = env.value)
    /\ KeyMissing => (pc \in {"start", "exited"} /\ inputLog = <<>> /\ ~cancelled)
    /\ httpRequests <= 1
    /\ pc \in {"start", "origin", "stops", "request"} => httpRequests = 0
    /\ httpRequests = 1 =>
          /\ inputLog # <<>>
          /\ IsFinishLine(Last(inputLog))
          /\ origin # <<>>
          /\ destination # <<>>
          /\ params # NoParams
    /\ pc \in {"extract", "report", "done"} => httpRequests = 1
    /\ reportPrinted =>
          /\ pc = "done"
          /\ httpRequests = 1
          /\ response.status_code = 200
          /\ response.status = "OK"
          /\ response.routes # <<>>
          /\ response.routes[1].legs # <<>>
          /\ AllLegsValued(response.routes[1].legs)
          /\ exit_status = <<>>

C7_Witness ==
    /\ reportPrinted
    /\ Len(response.routes) = 2
    /\ Len(inputLog) = MaxReads

(***************************************************************************)
(* C8: the parameters of the request are origin, destination, mode =       *)
(* 'driving' and key as given, and 'waypoints' exactly when there is a     *)
(* waypoint: 'optimize:true' followed by each waypoint, in input order,    *)
(* with '|' before it.                                                     *)
(***************************************************************************)
RECURSIVE PipedWaypoints(_)
PipedWaypoints(w) ==
    IF w = <<>> THEN <<>> ELSE PipedWaypoints(Front(w)) \o <<"|">> \o Last(w)

C8_RequestParams ==
    httpRequests = 1 =>
        /\ params["origin"] = origin
        /\ params["destination"] = destination
        /\ params["mode"] = <<"d","r","i","v","i","n","g">>
        /\ params["key"] = env.value
        /\ "waypoints" \in DOMAIN params <=> waypoints # <<>>
        /\ DOMAIN params \subseteq {"origin", "destination", "mode", "key", "waypoints"}
        /\ waypoints # <<>> =>
              params["waypoints"] =
                 <<"o","p","t","i","m","i","z","e",":","t","r","u","e">>
                 \o PipedWaypoints(waypoints)

C8_Witness ==
    /\ httpRequests = 1
    /\ Len(waypoints) = 2
    /\ waypoints[1] # waypoints[2]

(***************************************************************************)
(* C9: a finishing line (blank or 'done') typed when no stop was entered   *)
(* leads to no HTTP request: the next prompt is Stop #1, the origin is     *)
(* unchanged, and the origin prompt is never shown again once the origin   *)
(* was accepted.                                                           *)
(***************************************************************************)
C9_RetryStops ==
    [][ /\ ( /\ pc = "stops"
             /\ stops = <<>>
             /\ inputLog' # inputLog
             /\ IsFinishLine(Last(inputLog')) )
           => /\ pc' = "stops"
              /\ stops' = <<>>
              /\ prompt' = 1
              /\ origin' = origin
              /\ httpRequests' = 0
              /\ exit_status' = <<>>
        /\ pc = "stops" => (pc' # "origin" /\ prompt' # 0 /\ origin' = origin)
      ]_vars

C9_Witness ==
    /\ pc = "stops"
    /\ stops = <<>>
    /\ prompt = 1
    /\ Len(inputLog) >= 3
    /\ IsFinishLine(Last(inputLog))
    /\ IsFinishLine(inputLog[Len(inputLog) - 1])
    /\ Last(inputLog) # inputLog[Len(inputLog) - 1]
    /\ origin # <<>>

(***************************************************************************)
(* C10 as stated, for a request that has waypoints: the optimized order    *)
(* starts with the origin, ends with the destination and has 2 + (number   *)
(* of in-range entries) elements, and every input waypoint appears exactly *)
(* once only when the returned index list is a true permutation of         *)
(* 0..len(waypoints)-1.                                                    *)
(***************************************************************************)
C10_OnlyPermutation ==
    (pc = "done" /\ waypoints # <<>>) =>
        /\ ordered_stops[1] = origin
        /\ Last(ordered_stops) = destination
        /\ Len(ordered_stops) = 2 + Len(InRangeOrder)
        /\ SameElements(Middle(ordered_stops), waypoints)
              => IsPermutation(ReturnedOrder, Len(waypoints))

(***************************************************************************)
(* C10 amended: the optimized order starts with the origin, ends with the  *)
(* destination and has 2 + (number of in-range entries of the index list)  *)
(* elements; when the in-range entries are a permutation of                *)
(* 0..len(waypoints)-1 every input waypoint appears exactly once, and when *)
(* the waypoints are pairwise different that is the only case in which     *)
(* they do.                                                                *)
(***************************************************************************)
C10_InRangePermutation ==
    pc = "done" =>
        /\ ordered_stops[1] = origin
        /\ Last(ordered_stops) = destination
        /\ Len(ordered_stops) = 2 + Len(InRangeOrder)
        /\ IsPermutation(InRangeOrder, Len(waypoints))
              => SameElements(Middle(ordered_stops), waypoints)
        /\ ( /\ \A i, j \in DOMAIN waypoints : waypoints[i] = waypoints[j] => i = j
             /\ SameElements(Middle(ordered_stops), waypoints) )
              => IsPermutation(InRangeOrder, Len(waypoints))

C10_Witness ==
    /\ pc = "done"
    /\ Len(waypoints) = 2
    /\ waypoints[1] # waypoints[2]
    /\ ReturnedOrder = <<0, 0, 0>>
    /\ Len(ordered_stops) > Len(waypoints) + 2
    /\ Count(waypoints[2], Middle(ordered_stops)) = 0
====
